---- MODULE Spec2Model ----
(***************************************************************************)
(* State-machine model of the product-management single-page client:       *)
(* the routing table and route guard, the dashboard page and the           *)
(* product-detail page, with the backend and the browser as environment.   *)
(*                                                                         *)
(* React 18 semantics used throughout: the state updates of one handler    *)
(* (or of one continuation after an await) are batched into one render,    *)
(* and the effects whose dependencies changed run right after that render. *)
(* An action below is therefore one handler together with the render and   *)
(* the effects it triggers.                                                *)
(***************************************************************************)
EXTENDS Integers, Sequences, FiniteSets, TLC

VARIABLES
    token,      \* AuthContext: the in-memory token
    isLoading,  \* AuthContext: true while the persisted token is being read
    storage,    \* browser-local durable storage entry holding the token
    history,    \* browser history stack; the current location is its last entry
    element,    \* what the matched route currently renders
    dash,       \* Dashboard component state (useState cells)
    detail,     \* ProductDetail component state (useState cells)
    readers,    \* FileReaders started by handleImageChange and not yet ended
    net,        \* HTTP requests issued and not yet answered, in issue order
    server,     \* the backend's stored products, by id
    session,    \* history variable: the edit session (what was shown, draft touched, cancelled, updates posted)
    event,      \* history variable: the handler that ran last, and its request's tag
    actions     \* history variable: user actions handled by the pages so far

vars ==
    <<token, isLoading, storage, history, element, dash, detail, readers, net, server,
      session, event, actions>>

(***************************************************************************)
(* Bounds of the model.                                                    *)
(***************************************************************************)
MaxInFlight == 2    \* requests outstanding at once
MaxPage == 3        \* largest page number the backend reports or the user reaches
MaxHistory == 3     \* entries kept in the browser history stack
MaxDashActions == 2     \* filter changes and pagination clicks on the dashboard in one run
MaxDetailActions == 2   \* draft changes, file choices, submissions and delete prompts on the detail page in one run

(***************************************************************************)
(* Values.                                                                 *)
(***************************************************************************)
Null == "null"              \* JavaScript null / undefined for string-valued cells
NullNum == -1               \* JavaScript null / undefined for number-valued cells
Falsy(x) == x = Null \/ x = ""

\* Numbers are carried in hundredths (19.5 is 1950); numeric strings are
\* sequences of one-character strings (<<"1","9",".","5">>).
DigitChars == <<"0", "1", "2", "3", "4", "5", "6", "7", "8", "9">>
Digit(d) == DigitChars[d + 1]
IsDigit(c) == \E d \in 0..9 : DigitChars[d + 1] = c
CharVal(c) == CHOOSE d \in 0..9 : DigitChars[d + 1] = c

RECURSIVE IntDigits(_)
IntDigits(i) ==
    IF i < 10 THEN <<Digit(i)>> ELSE IntDigits(i \div 10) \o <<Digit(i % 10)>>

\* Number.prototype.toString for a non-negative number with at most two decimals.
NumToString(n) ==
    LET i == n \div 100
        f == n % 100
    IN  IF f = 0 THEN IntDigits(i)
        ELSE IF f % 10 = 0 THEN IntDigits(i) \o <<".", Digit(f \div 10)>>
        ELSE IntDigits(i) \o <<".", Digit(f \div 10), Digit(f % 10)>>

\* Number(x).toFixed(2); Number(null) is 0.
ToFixed2(n) ==
    LET m == IF n = NullNum THEN 0 ELSE n
    IN  IntDigits(m \div 100) \o <<".", Digit((m % 100) \div 10), Digit(m % 10)>>

\* Number(x).toFixed(1): the nearest tenth, the larger one on a tie.
ToFixed1(n) ==
    LET m == IF n = NullNum THEN 0 ELSE n
        t == (m + 5) \div 10
    IN  IntDigits(t \div 10) \o <<".", Digit(t % 10)>>

RECURSIVE DigitsValue(_)
DigitsValue(s) ==
    IF Len(s) = 0 THEN 0
    ELSE 10 * DigitsValue(SubSeq(s, 1, Len(s) - 1)) + CharVal(s[Len(s)])

AllDigits(s) == \A k \in 1..Len(s) : IsDigit(s[k])
DotAt(s) == IF \E k \in 1..Len(s) : s[k] = "." THEN CHOOSE k \in 1..Len(s) : s[k] = "." ELSE 0

\* The backend's reading of a submitted decimal field, in hundredths;
\* NullNum when the text is not a decimal with at most two fractional digits.
ParseDecimal(s) ==
    LET d == DotAt(s)
        ip == IF d = 0 THEN s ELSE SubSeq(s, 1, d - 1)
        fp == IF d = 0 THEN <<>> ELSE SubSeq(s, d + 1, Len(s))
    IN  IF Len(ip) = 0 \/ ~AllDigits(ip) \/ ~AllDigits(fp) \/ Len(fp) > 2 THEN NullNum
        ELSE 100 * DigitsValue(ip)
             + (IF Len(fp) = 0 THEN 0
                ELSE IF Len(fp) = 1 THEN 10 * DigitsValue(fp)
                ELSE DigitsValue(fp))

(***************************************************************************)
(* Products and the backend.                                               *)
(***************************************************************************)
ProductIds == {1, 2}        \* ids the backend holds at start
RouteIds == {1, 2, 3}       \* ids a /products/:id location can carry

NoProduct ==
    [id |-> 0, name |-> Null, category |-> Null, price |-> NullNum, rating |-> NullNum,
     image |-> Null, image_url |-> Null, description |-> Null]

\* The backend's catalogue at start: a product with a stored image and a
\* description, and one with an absolute image URL and no description.
InitServer ==
    [i \in RouteIds |->
        IF i = 1 THEN
            [id |-> 1, name |-> "Lamp", category |-> "Electronics", price |-> 1950,
             rating |-> 400, image |-> "abc.png", image_url |-> Null,
             description |-> "Desk lamp"]
        ELSE IF i = 2 THEN
            [id |-> 2, name |-> "Novel", category |-> "Books", price |-> 700,
             rating |-> 425, image |-> Null, image_url |-> "https://x/y.png",
             description |-> Null]
        ELSE NoProduct]

Files == {"f1.png", "f2.png"}           \* files the user can pick
\* FileReader.readAsDataURL result for a file.
DataUrl(f) == IF f = "f1.png" THEN "data:image/png;f1" ELSE "data:image/png;f2"
\* The stored-file reference the backend gives an upload.
StoredPath(f) == IF f = "f1.png" THEN "products/f1.png" ELSE "products/f2.png"

(***************************************************************************)
(* Component state.                                                        *)
(***************************************************************************)
PerPage == 12

\* Dashboard: the useState initial values.
DashFresh ==
    [products |-> <<>>, loading |-> TRUE, error |-> "", search |-> "", category |-> "",
     sortBy |-> "created_at", sortOrder |-> "desc", minPrice |-> "", maxPrice |-> "",
     currentPage |-> 1, lastPage |-> 1, total |-> 0]

EmptyForm ==
    [name |-> "", category |-> "", price |-> <<>>, rating |-> <<>>, description |-> ""]

\* ProductDetail: the useState initial values, with the route parameter id.
DetailFresh(i) ==
    [id |-> i, product |-> NoProduct, loading |-> TRUE, error |-> "", isEditing |-> FALSE,
     formData |-> EmptyForm, imageFile |-> Null, imagePreview |-> Null]

\* fetchProduct's setFormData argument: the draft built from a fetched product.
ToForm(p) ==
    [name |-> IF Falsy(p.name) THEN "" ELSE p.name,
     category |-> IF Falsy(p.category) THEN "" ELSE p.category,
     price |-> IF p.price = NullNum THEN <<"0">> ELSE NumToString(p.price),
     rating |-> IF p.rating = NullNum THEN <<"0">> ELSE NumToString(p.rating),
     description |-> IF Falsy(p.description) THEN "" ELSE p.description]

\* What view mode displays of a product.
Display(p) ==
    [name |-> p.name, category |-> p.category, price |-> ToFixed2(p.price),
     rating |-> ToFixed1(p.rating),
     description |-> IF Falsy(p.description) THEN "No description available."
                     ELSE p.description]

(***************************************************************************)
(* Images.  A URL is a sequence of pieces of text.                         *)
(***************************************************************************)
\* Values of import.meta.env.VITE_API_BASE_URL: unset, the default API
\* address, a bare "/api", and an address whose host also starts with "api".
ApiBaseUrls ==
    {<<>>, <<"http://localhost:8000", "/api">>, <<"/api">>,
     <<"http:/", "/api", ".shop.test", "/api">>}

\* String.prototype.replace(piece, ''): the first occurrence is removed.
RECURSIVE ReplaceFirst(_, _)
ReplaceFirst(u, piece) ==
    IF u = <<>> THEN <<>>
    ELSE IF Head(u) = piece THEN Tail(u)
    ELSE <<Head(u)>> \o ReplaceFirst(Tail(u), piece)

\* VITE_API_BASE_URL?.replace('/api', '') || 'http://localhost:8000'
StorageBase(env) ==
    IF ReplaceFirst(env, "/api") = <<>> THEN <<"http://localhost:8000">>
    ELSE ReplaceFirst(env, "/api")

PlaceholderUrl == <<"https://via.placeholder.com/600x400?text=No+Image">>
NoImage == <<>>     \* no <img> element is rendered

getImageUrl(imageUrl, imagePath, env) ==
    IF ~Falsy(imageUrl) THEN <<imageUrl>>
    ELSE IF Falsy(imagePath) THEN PlaceholderUrl
    ELSE StorageBase(env) \o <<"/storage/", imagePath>>

\* The image of the detail view.
ViewImage(p, env) == getImageUrl(p.product.image_url, p.product.image, env)

\* The image under the edit form's file input.
EditPreview(p, env) ==
    IF ~Falsy(p.imagePreview) THEN <<p.imagePreview>>
    ELSE IF ~Falsy(p.product.image)
         THEN getImageUrl(p.product.image_url, p.product.image, env)
    ELSE NoImage

(***************************************************************************)
(* Requests in flight.  tag is a history field: what the edit session that *)
(* led to the request displayed, and whether its draft was left untouched. *)
(***************************************************************************)
NoBody == [empty |-> TRUE]
NoTag == [untouched |-> FALSE, shown |-> Display(NoProduct)]
Request(k, i, b, t) == [kind |-> k, id |-> i, body |-> b, live |-> TRUE, tag |-> t]

\* Mutant: every parameter is sent, an empty one as the empty string.
ListParams_SendsEmpty(d) ==
    [page |-> d.currentPage, per_page |-> PerPage, search |-> d.search,
     category |-> d.category, sort_by |-> d.sortBy, sort_order |-> d.sortOrder,
     min_price |-> d.minPrice, max_price |-> d.maxPrice]

\* fetchProducts' query parameters: page and per_page always, the others
\* only when their value is non-empty.
ListParams(d) ==
    LET all == [page |-> d.currentPage, per_page |-> PerPage, search |-> d.search,
                category |-> d.category, sort_by |-> d.sortBy, sort_order |-> d.sortOrder,
                min_price |-> d.minPrice, max_price |-> d.maxPrice]
        keys == {k \in DOMAIN all :
                    IF k \in {"page", "per_page"} THEN TRUE ELSE all[k] # ""}
    IN  [k \in keys |-> all[k]]

ListRequest(d) == Request("LIST", 0, ListParams(d), NoTag)
GetRequest(i, t) == Request("GET", i, NoBody, t)
DeleteRequest(i) == Request("DELETE", i, NoBody, NoTag)

\* handleUpdate's multipart payload.
UpdateBody(f, file) ==
    [name |-> f.name, category |-> f.category, price |-> f.price, rating |-> f.rating,
     description |-> f.description, image |-> file, method |-> "PUT"]

UpdateRequest(i, f, file, t) == Request("POST", i, UpdateBody(f, file), t)

(***************************************************************************)
(* Routing table, route guard and rendering.                               *)
(***************************************************************************)
ProductPath(i) == <<"/products/1", "/products/2", "/products/3">>[i]
IsProductPath(p) == \E i \in RouteIds : ProductPath(i) = p
ParamId(p) == CHOOSE i \in RouteIds : ProductPath(i) = p
Paths == {"/", "/login", "/dashboard", "/missing"} \cup {ProductPath(i) : i \in RouteIds}

\* Mutant: the guard never looks at the token.
ProtectedRoute_NoTokenCheck(tok, loading, children) ==
    IF loading THEN "GuardLoading" ELSE children

\* Mutant: the guard looks at the token before the loading flag.
ProtectedRoute_TokenFirst(tok, loading, children) ==
    IF Falsy(tok) THEN "NavigateLogin"
    ELSE IF loading THEN "GuardLoading"
    ELSE children

\* The route guard: what it returns for the context's token and isLoading.
ProtectedRoute(tok, loading, children) ==
    IF loading THEN "GuardLoading"
    ELSE IF Falsy(tok) THEN "NavigateLogin"
    ELSE children

\* The routing table: the element of the route matching a location.
RouteElement(p, tok, loading) ==
    IF p = "/login" THEN "Login"
    ELSE IF p = "/dashboard" THEN ProtectedRoute(tok, loading, "Dashboard")
    ELSE IF IsProductPath(p) THEN ProtectedRoute(tok, loading, "ProductDetail")
    ELSE IF p = "/" THEN "NavigateDashboard"
    ELSE "Nothing"

Location == history[Len(history)]
Push(h, p) == IF Len(h) < MaxHistory THEN Append(h, p) ELSE Append(Tail(h), p)
Replace(h, p) == [h EXCEPT ![Len(h)] = p]

\* Requests that outlive the component that issued them: an unmounted
\* component's state setters do nothing, so the answers to its reads are
\* dropped; its update and delete still reach the backend and their
\* continuations still run.
Orphans(n) ==
    LET keep == SelectSeq(n, LAMBDA r : r.kind \in {"POST", "DELETE", "LOGIN"})
    IN  [k \in 1..Len(keep) |->
            IF keep[k].kind = "LOGIN" THEN keep[k] ELSE [keep[k] EXCEPT !.live = FALSE]]

\* arg: the backend's message of a failed update; for an answered list
\* request, whether it was issued for the inputs now held ("current") or for
\* earlier ones ("stale").
Ev(name) == [name |-> name, tag |-> NoTag, arg |-> Null]
NoSession == [shown |-> Display(NoProduct), touched |-> FALSE, sinceCancel |-> FALSE, posts |-> 0]

\* One render after the context or the location changed: the matched
\* element is computed, a page that stays rendered keeps its state (d, p, n,
\* r, s), a page that appears is mounted with its initial state and its
\* mount effect issues its first request.
Render(tok, loading, h, d, p, n, r, s) ==
    LET el == RouteElement(h[Len(h)], tok, loading)
        stays == el = element /\ el \in {"Dashboard", "ProductDetail"}
                 /\ (el = "ProductDetail" => ParamId(h[Len(h)]) = p.id)
        kept == IF stays THEN n ELSE Orphans(n)
    IN  /\ Len(kept) < MaxInFlight \/ stays \/ el \notin {"Dashboard", "ProductDetail"}
        /\ token' = tok
        /\ isLoading' = loading
        /\ history' = h
        /\ element' = el
        /\ dash' = IF stays THEN d ELSE DashFresh
        /\ detail' = IF stays THEN p
                     ELSE IF el = "ProductDetail" THEN DetailFresh(ParamId(h[Len(h)]))
                     ELSE DetailFresh(0)
        /\ readers' = IF stays THEN r ELSE {}
        /\ session' = IF stays THEN s ELSE NoSession
        /\ net' = IF stays THEN n
                  ELSE IF el = "Dashboard" THEN Append(kept, ListRequest(DashFresh))
                  ELSE IF el = "ProductDetail"
                       THEN Append(kept, GetRequest(ParamId(h[Len(h)]), NoTag))
                  ELSE kept

\* A handler that changes neither the context nor the location.
Stay(d, p, n, r, s) == Render(token, isLoading, history, d, p, n, r, s)

DashAct == actions < MaxDashActions /\ actions' = actions + 1
DetailAct == actions < MaxDetailActions /\ actions' = actions + 1

RemoveAt(n, k) == SubSeq(n, 1, k - 1) \o SubSeq(n, k + 1, Len(n))
Redirecting == element \in {"NavigateLogin", "NavigateDashboard"}

(***************************************************************************)
(* Authentication context, login page, navigation.                         *)
(***************************************************************************)
Tokens == {"tok"}

\* Initialize: the persisted token becomes the current token; loading ends.
AuthInitialize ==
    /\ isLoading
    /\ ~Redirecting
    /\ Render(storage, FALSE, history, dash, detail, net, readers, session)
    /\ UNCHANGED <<storage, server, actions>>
    /\ event' = Ev("Initialize")

\* The login page submits the credentials through the context's login.
LoginSubmit ==
    /\ element = "Login"
    /\ Len(net) < MaxInFlight
    /\ Stay(dash, detail, Append(net, Request("LOGIN", 0, NoBody, NoTag)), readers, session)
    /\ UNCHANGED <<storage, server, actions>>
    /\ event' = Ev("LoginSubmit")

\* Login accepted: the token is stored in memory and in durable storage and
\* the login page navigates to /dashboard.
LoginOk ==
    \E k \in 1..Len(net), t \in Tokens :
        /\ net[k].kind = "LOGIN"
        /\ ~Redirecting
        /\ storage' = t
        /\ Render(t, isLoading, Push(history, "/dashboard"), dash, detail,
                  RemoveAt(net, k), readers, session)
        /\ UNCHANGED <<server, actions>>
        /\ event' = Ev("LoginOk")

\* Login rejected: the error goes to the login page; the context is untouched.
LoginFail ==
    \E k \in 1..Len(net) :
        /\ net[k].kind = "LOGIN"
        /\ ~Redirecting
        /\ Stay(dash, detail, RemoveAt(net, k), readers, session)
        /\ UNCHANGED <<storage, server, actions>>
        /\ event' = Ev("LoginFail")

\* Mutant: logout() without the navigation that follows it.
handleLogout_NoNavigate ==
    /\ element = "Dashboard"
    /\ storage' = Null
    /\ Render(Null, isLoading, history, dash, detail, net, readers, session)
    /\ UNCHANGED <<server, actions>>
    /\ event' = Ev("handleLogout")

\* Dashboard.handleLogout: logout(), then navigate('/login').
handleLogout ==
    /\ element = "Dashboard"
    /\ storage' = Null
    /\ Render(Null, isLoading, Push(history, "/login"), dash, detail, net, readers, session)
    /\ UNCHANGED <<server, actions>>
    /\ event' = Ev("handleLogout")

\* Mutant: every redirect element points at /login.
NavigateTarget_AlwaysLogin(el) == "/login"

\* <Navigate to=... replace />: the effect of a rendered redirect element.
NavigateTarget(el) == IF el = "NavigateLogin" THEN "/login" ELSE "/dashboard"

NavigateEffect ==
    /\ Redirecting
    /\ Render(token, isLoading, Replace(history, NavigateTarget(element)), dash, detail,
              net, readers, session)
    /\ UNCHANGED <<storage, server, actions>>
    /\ event' = Ev(element)

\* A product card's onClick: navigate(`/products/${product.id}`).
ClickCard ==
    \E c \in 1..Len(dash.products) :
        /\ element = "Dashboard"
        /\ ~dash.loading
        /\ Render(token, isLoading, Push(history, ProductPath(dash.products[c])), dash,
                  detail, net, readers, session)
        /\ UNCHANGED <<storage, server, actions>>
        /\ event' = Ev("ClickCard")

\* The detail view renders (and its buttons exist) once the product is loaded.
DetailShown == element = "ProductDetail" /\ ~detail.loading /\ detail.product # NoProduct

\* "Back to Dashboard": navigate('/dashboard').
BackToDashboard ==
    /\ DetailShown
    /\ Render(token, isLoading, Push(history, "/dashboard"), dash, detail, net, readers,
              session)
    /\ UNCHANGED <<storage, server, actions>>
    /\ event' = Ev("BackToDashboard")

\* The browser's Back button.
GoBack ==
    /\ Len(history) > 1
    /\ ~Redirecting
    /\ Render(token, isLoading, SubSeq(history, 1, Len(history) - 1), dash, detail, net,
              readers, session)
    /\ UNCHANGED <<storage, server, actions>>
    /\ event' = Ev("GoBack")

(***************************************************************************)
(* Dashboard page.                                                         *)
(***************************************************************************)
\* What the backend can answer to a list request, apart from current_page,
\* which echoes the page asked for.
ListBodies ==
    {[data |-> <<>>, last_page |-> 1, total |-> 0],
     [data |-> <<1, 2>>, last_page |-> 2, total |-> 14],
     [data |-> <<2, 3>>, last_page |-> MaxPage, total |-> PerPage * MaxPage]}

\* The dependency list of the fetch effect.
Deps(d) == <<d.search, d.category, d.sortBy, d.sortOrder, d.minPrice, d.maxPrice, d.currentPage>>

\* fetchProducts up to its await: the state it sets and the request it sends.
fetchProducts(d) == [d EXCEPT !.loading = TRUE, !.error = ""]

\* The render after a dashboard handler set the state to d: the fetch effect
\* runs when a dependency changed.
\* Mutant: the effect has no dependency list and runs after every render.
DashCommit_NoDeps(d, n) ==
    /\ Len(n) < MaxInFlight
    /\ Stay(fetchProducts(d), detail, Append(n, ListRequest(fetchProducts(d))), readers, session)

DashCommit(d, n) ==
    IF Deps(d) # Deps(dash)
    THEN /\ Len(n) < MaxInFlight
         /\ Stay(fetchProducts(d), detail, Append(n, ListRequest(fetchProducts(d))), readers,
                 session)
    ELSE Stay(d, detail, n, readers, session)

\* Mutant: the response's current_page is not adopted.
fetchProductsOk_KeepsPage(d, req, body) ==
    [d EXCEPT !.products = body.data, !.lastPage = body.last_page, !.total = body.total,
              !.loading = FALSE]

\* fetchProducts after a successful await.
fetchProductsOk(d, req, body) ==
    [d EXCEPT !.products = body.data, !.currentPage = req.body.page,
              !.lastPage = body.last_page, !.total = body.total, !.loading = FALSE]

\* Mutant: the failure also empties the list.
fetchProductsFail_ClearsList(d) ==
    [d EXCEPT !.error = "Failed to fetch products", !.loading = FALSE, !.products = <<>>,
              !.total = 0]

\* fetchProducts after a failed await.
fetchProductsFail(d) == [d EXCEPT !.error = "Failed to fetch products", !.loading = FALSE]

FetchProductsOk ==
    \E k \in 1..Len(net), body \in ListBodies :
        /\ element = "Dashboard"
        /\ net[k].kind = "LIST"
        /\ DashCommit(fetchProductsOk(dash, net[k], body), RemoveAt(net, k))
        /\ UNCHANGED <<storage, server, actions>>
        /\ event' = [Ev("fetchProductsOk") EXCEPT
                        !.arg = IF net[k].body = ListParams(dash) THEN "current" ELSE "stale"]

FetchProductsFail ==
    \E k \in 1..Len(net) :
        /\ element = "Dashboard"
        /\ net[k].kind = "LIST"
        /\ DashCommit(fetchProductsFail(dash), RemoveAt(net, k))
        /\ UNCHANGED <<storage, server, actions>>
        /\ event' = Ev("fetchProductsFail")

SearchInputs == {"", "lamp"}
CategoryInputs == {"", "Books"}
SortInputs == {"created_at", "price"}
SortOrderInputs == {"asc", "desc"}
MinPriceInputs == {"", "5"}
MaxPriceInputs == {"", "50"}

\* Mutant: the search text is set and the page is left where it was.
handleSearchChange_KeepPage(d, v) == [d EXCEPT !.search = v]

handleSearchChange(d, v) == [d EXCEPT !.search = v, !.currentPage = 1]
handleCategoryChange(d, v) == [d EXCEPT !.category = v, !.currentPage = 1]
handleSortChange(d, v) == [d EXCEPT !.sortBy = v, !.currentPage = 1]
handleSortOrderChange(d, v) == [d EXCEPT !.sortOrder = v, !.currentPage = 1]
handleMinPriceChange(d, v) == [d EXCEPT !.minPrice = v, !.currentPage = 1]
handleMaxPriceChange(d, v) == [d EXCEPT !.maxPrice = v, !.currentPage = 1]

\* Mutant: Clear Filters flips the sort order instead of resetting it.
clearFilters_FlipsOrder(d) ==
    [d EXCEPT !.search = "", !.category = "", !.sortBy = "created_at",
              !.sortOrder = IF d.sortOrder = "desc" THEN "asc" ELSE "desc",
              !.minPrice = "", !.maxPrice = "", !.currentPage = 1]

clearFilters(d) ==
    [d EXCEPT !.search = "", !.category = "", !.sortBy = "created_at", !.sortOrder = "desc",
              !.minPrice = "", !.maxPrice = "", !.currentPage = 1]

\* The filter controls are rendered whenever the dashboard is; a control's
\* change event carries a value other than the one it shows.
HandleSearchChange ==
    \E v \in SearchInputs \ {dash.search} :
        /\ element = "Dashboard"
        /\ DashCommit(handleSearchChange(dash, v), net)
        /\ UNCHANGED <<storage, server>>
        /\ DashAct
        /\ event' = Ev("handleSearchChange")

HandleCategoryChange ==
    \E v \in CategoryInputs \ {dash.category} :
        /\ element = "Dashboard"
        /\ DashCommit(handleCategoryChange(dash, v), net)
        /\ UNCHANGED <<storage, server>>
        /\ DashAct
        /\ event' = Ev("handleCategoryChange")

HandleSortChange ==
    \E v \in SortInputs \ {dash.sortBy} :
        /\ element = "Dashboard"
        /\ DashCommit(handleSortChange(dash, v), net)
        /\ UNCHANGED <<storage, server>>
        /\ DashAct
        /\ event' = Ev("handleSortChange")

HandleSortOrderChange ==
    \E v \in SortOrderInputs \ {dash.sortOrder} :
        /\ element = "Dashboard"
        /\ DashCommit(handleSortOrderChange(dash, v), net)
        /\ UNCHANGED <<storage, server>>
        /\ DashAct
        /\ event' = Ev("handleSortOrderChange")

HandleMinPriceChange ==
    \E v \in MinPriceInputs \ {dash.minPrice} :
        /\ element = "Dashboard"
        /\ DashCommit(handleMinPriceChange(dash, v), net)
        /\ UNCHANGED <<storage, server>>
        /\ DashAct
        /\ event' = Ev("handleMinPriceChange")

HandleMaxPriceChange ==
    \E v \in MaxPriceInputs \ {dash.maxPrice} :
        /\ element = "Dashboard"
        /\ DashCommit(handleMaxPriceChange(dash, v), net)
        /\ UNCHANGED <<storage, server>>
        /\ DashAct
        /\ event' = Ev("handleMaxPriceChange")

ClearFilters ==
    /\ element = "Dashboard"
    /\ DashCommit(clearFilters(dash), net)
    /\ UNCHANGED <<storage, server>>
    /\ DashAct
    /\ event' = Ev("clearFilters")

\* The pagination controls, as rendered.
PaginationShown(d) == ~d.loading /\ d.lastPage > 1
PreviousDisabled(d) == d.currentPage = 1
NextDisabled(d) == d.currentPage = d.lastPage

ClickPrevious ==
    /\ element = "Dashboard"
    /\ PaginationShown(dash)
    /\ ~PreviousDisabled(dash)
    /\ DashCommit([dash EXCEPT !.currentPage = dash.currentPage - 1], net)
    /\ UNCHANGED <<storage, server>>
    /\ DashAct
    /\ event' = Ev("ClickPrevious")

ClickNext ==
    /\ element = "Dashboard"
    /\ PaginationShown(dash)
    /\ ~NextDisabled(dash)
    /\ dash.currentPage <= MaxPage
    /\ DashCommit([dash EXCEPT !.currentPage = dash.currentPage + 1], net)
    /\ UNCHANGED <<storage, server>>
    /\ DashAct
    /\ event' = Ev("ClickNext")

(***************************************************************************)
(* Product-detail page.                                                    *)
(***************************************************************************)
\* fetchProduct up to its await.
fetchProduct(p) == [p EXCEPT !.loading = TRUE, !.error = ""]

\* fetchProduct after a successful await.
fetchProductOk(p, productData) ==
    [p EXCEPT !.product = productData, !.formData = ToForm(productData), !.loading = FALSE]

\* fetchProduct after a failed await.
fetchProductFail(p) == [p EXCEPT !.error = "Failed to fetch product", !.loading = FALSE]

\* The backend answers a read of an id it holds.
FetchProductOk ==
    \E k \in 1..Len(net) :
        /\ element = "ProductDetail"
        /\ net[k].kind = "GET"
        /\ server[net[k].id] # NoProduct
        /\ Stay(dash, fetchProductOk(detail, server[net[k].id]), RemoveAt(net, k), readers,
                session)
        /\ UNCHANGED <<storage, server, actions>>
        /\ event' = [Ev("fetchProductOk") EXCEPT !.tag = net[k].tag]

\* The read fails: the id is not held, or the request does not get through.
FetchProductFail ==
    \E k \in 1..Len(net) :
        /\ element = "ProductDetail"
        /\ net[k].kind = "GET"
        /\ Stay(dash, fetchProductFail(detail), RemoveAt(net, k), readers, session)
        /\ UNCHANGED <<storage, server, actions>>
        /\ event' = [Ev("fetchProductFail") EXCEPT !.tag = net[k].tag]

\* "Edit Product": setIsEditing(true).
EditProduct ==
    /\ DetailShown
    /\ ~detail.isEditing
    /\ Stay(dash, [detail EXCEPT !.isEditing = TRUE], net, readers,
            [session EXCEPT !.shown = Display(detail.product), !.touched = FALSE, !.posts = 0])
    /\ UNCHANGED <<storage, server>>
    /\ UNCHANGED actions
    /\ event' = Ev("EditProduct")

\* What the user types into the edit form.
EditInputs ==
    {<<"name", "Desk">>, <<"price", <<"7", ".", "5">>>>, <<"description", "">>}

handleInputChange(p, field, value) == [p EXCEPT !.formData[field] = value]

HandleInputChange ==
    \E in \in EditInputs :
        /\ DetailShown
        /\ detail.isEditing
        /\ detail.formData[in[1]] # in[2]
        /\ Stay(dash, handleInputChange(detail, in[1], in[2]), net, readers,
                [session EXCEPT !.touched = TRUE])
        /\ UNCHANGED <<storage, server>>
        /\ DetailAct
        /\ event' = Ev("handleInputChange")

\* handleImageChange: with a file chosen, it is kept and a FileReader is
\* started on it; with none (the file dialog was dismissed), nothing happens.
handleImageChange(p, file) == IF file # Null THEN [p EXCEPT !.imageFile = file] ELSE p

HandleImageChange ==
    \E file \in Files \cup {Null} :
        /\ DetailShown
        /\ detail.isEditing
        /\ Stay(dash, handleImageChange(detail, file), net,
                IF file # Null THEN readers \cup {file} ELSE readers,
                IF file # Null THEN [session EXCEPT !.touched = TRUE, !.sinceCancel = FALSE]
                ELSE session)
        /\ UNCHANGED <<storage, server>>
        /\ DetailAct
        /\ event' = Ev(IF file # Null THEN "handleImageChange" ELSE "handleImageChangeNoFile")

\* reader.onloadend: setImagePreview(reader.result); the result is null
\* when the read failed.
ReaderLoadEnd ==
    \E file \in readers, ok \in BOOLEAN :
        /\ element = "ProductDetail"
        /\ Stay(dash, [detail EXCEPT !.imagePreview = IF ok THEN DataUrl(file) ELSE Null],
                net, readers \ {file}, session)
        /\ UNCHANGED <<storage, server, actions>>
        /\ event' = Ev("onloadend")

\* The edit form's required fields hold a value (the browser blocks the
\* submit event otherwise).
FormValid(f) == f.name # "" /\ f.category # "" /\ f.price # <<>> /\ f.rating # <<>>

\* handleUpdate up to its await: the error is cleared and the form is posted.
HandleUpdate ==
    /\ DetailShown
    /\ detail.isEditing
    /\ FormValid(detail.formData)
    /\ Len(net) < MaxInFlight
    /\ Stay(dash, [detail EXCEPT !.error = ""],
            Append(net, UpdateRequest(detail.id, detail.formData, detail.imageFile,
                                      [untouched |-> ~session.touched /\ detail.imageFile = Null,
                                       shown |-> session.shown])),
            readers, [session EXCEPT !.posts = @ + 1])
    /\ UNCHANGED <<storage, server>>
    /\ DetailAct
    /\ event' = Ev("handleUpdate")

\* The backend accepts an update of a product it holds when the decimal
\* fields parse, and stores the submitted fields.
Accepts(srv, req) ==
    /\ srv[req.id] # NoProduct
    /\ ParseDecimal(req.body.price) # NullNum
    /\ ParseDecimal(req.body.rating) # NullNum

Stored(old, body) ==
    [old EXCEPT !.name = body.name, !.category = body.category,
                !.price = ParseDecimal(body.price), !.rating = ParseDecimal(body.rating),
                !.description = body.description,
                !.image = IF body.image # Null THEN StoredPath(body.image) ELSE old.image]

\* Mutant: the chosen file survives a successful update.
handleUpdateOk_KeepsFile(p, updatedProduct) ==
    [p EXCEPT !.product = updatedProduct, !.isEditing = FALSE, !.imagePreview = Null]

\* handleUpdate after a successful await, up to its call of fetchProduct.
handleUpdateOk(p, updatedProduct) ==
    [p EXCEPT !.product = updatedProduct, !.isEditing = FALSE, !.imageFile = Null,
              !.imagePreview = Null]

\* Mutant: a failed update also leaves edit mode.
handleUpdateFail_ExitsEdit(p, message) ==
    [p EXCEPT !.error = IF Falsy(message) THEN "Failed to update product" ELSE message,
              !.isEditing = FALSE]

\* handleUpdate's catch block.
handleUpdateFail(p, message) ==
    [p EXCEPT !.error = IF Falsy(message) THEN "Failed to update product" ELSE message]

UpdateOk ==
    \E k \in 1..Len(net) :
        LET req == net[k]
            updated == Stored(server[req.id], req.body)
        IN  /\ req.kind = "POST"
            /\ ~Redirecting
            /\ Accepts(server, req)
            /\ server' = [server EXCEPT ![req.id] = updated]
            /\ IF req.live
               THEN Stay(dash, fetchProduct(handleUpdateOk(detail, updated)),
                         Append(RemoveAt(net, k), GetRequest(req.id, req.tag)), readers,
                         session)
               ELSE Stay(dash, detail, RemoveAt(net, k), readers, session)
            /\ UNCHANGED <<storage, actions>>
            /\ event' = [Ev("handleUpdateOk") EXCEPT !.tag = req.tag]

\* Messages the backend can send with a rejected update; Null is a failure
\* that carries none.
BackendMessages == {Null, "The given data was invalid."}

UpdateFail ==
    \E k \in 1..Len(net), message \in BackendMessages :
        /\ net[k].kind = "POST"
        /\ ~Redirecting
        /\ IF net[k].live
           THEN Stay(dash, handleUpdateFail(detail, message), RemoveAt(net, k), readers,
                     session)
           ELSE Stay(dash, detail, RemoveAt(net, k), readers, session)
        /\ UNCHANGED <<storage, server, actions>>
        /\ event' = [Ev("handleUpdateFail") EXCEPT !.tag = net[k].tag, !.arg = message]

\* The Cancel button's onClick.
cancelEdit(p) == [p EXCEPT !.isEditing = FALSE, !.imageFile = Null, !.imagePreview = Null]

Cancel ==
    /\ DetailShown
    /\ detail.isEditing
    /\ Stay(dash, cancelEdit(detail), net, readers, [session EXCEPT !.sinceCancel = TRUE])
    /\ UNCHANGED <<storage, server>>
    /\ UNCHANGED actions
    /\ event' = Ev("Cancel")

\* Mutant: the answer to the confirmation prompt is ignored.
handleDelete_NoConfirm(n, id, confirmed) == Append(n, DeleteRequest(id))

\* handleDelete: nothing unless window.confirm returns true; then one DELETE.
handleDelete(n, id, confirmed) == IF ~confirmed THEN n ELSE Append(n, DeleteRequest(id))

HandleDelete ==
    \E confirmed \in BOOLEAN :
        /\ DetailShown
        /\ ~detail.isEditing
        /\ confirmed => Len(net) < MaxInFlight
        /\ Stay(dash, detail, handleDelete(net, detail.id, confirmed), readers, session)
        /\ UNCHANGED <<storage, server>>
        /\ DetailAct
        /\ event' = Ev(IF confirmed THEN "handleDeleteConfirmed" ELSE "handleDeleteDeclined")

\* handleDelete after a successful await: navigate('/dashboard').
DeleteOk ==
    \E k \in 1..Len(net) :
        /\ net[k].kind = "DELETE"
        /\ ~Redirecting
        /\ server[net[k].id] # NoProduct
        /\ server' = [server EXCEPT ![net[k].id] = NoProduct]
        /\ Render(token, isLoading, Push(history, "/dashboard"), dash, detail,
                  RemoveAt(net, k), readers, session)
        /\ UNCHANGED <<storage, actions>>
        /\ event' = Ev("handleDeleteOk")

\* handleDelete's catch block.
handleDeleteFail(p) == [p EXCEPT !.error = "Failed to delete product"]

DeleteFail ==
    \E k \in 1..Len(net) :
        /\ net[k].kind = "DELETE"
        /\ ~Redirecting
        /\ IF net[k].live
           THEN Stay(dash, handleDeleteFail(detail), RemoveAt(net, k), readers, session)
           ELSE Stay(dash, detail, RemoveAt(net, k), readers, session)
        /\ UNCHANGED <<storage, server, actions>>
        /\ event' = Ev("handleDeleteFail")

(***************************************************************************)
(* Specifications.                                                         *)
(***************************************************************************)
\* The browser loads the application at some location: the context is
\* loading, nothing is mounted behind the guard, nothing is in flight.
Init ==
    /\ storage \in {Null, ""} \cup Tokens
    /\ token = Null
    /\ isLoading = TRUE
    /\ history \in {<<p>> : p \in Paths}
    /\ element = RouteElement(history[1], token, TRUE)
    /\ dash = DashFresh
    /\ detail = DetailFresh(0)
    /\ readers = {}
    /\ session = NoSession
    /\ net = <<>>
    /\ server = InitServer
    /\ event = Ev("load")
    /\ actions = 0

\* The application as a whole: context, login, navigation, and the pages'
\* first loads (the pages' own handlers are in NextDash and NextDetail).
Next ==
    \/ AuthInitialize
    \/ LoginSubmit
    \/ LoginOk
    \/ LoginFail
    \/ handleLogout
    \/ NavigateEffect
    \/ ClickCard
    \/ BackToDashboard
    \/ GoBack
    \/ FetchProductsOk
    \/ FetchProductsFail
    \/ FetchProductOk
    \/ FetchProductFail

Spec == Init /\ [][Next]_vars

\* The application with React's scheduling of effects: an effect of a
\* committed render (the redirect of a rendered <Navigate>, the context's
\* mount effect) does run.
SpecEffects == Spec /\ WF_vars(NavigateEffect) /\ WF_vars(AuthInitialize)

\* The dashboard, mounted for a signed-in user.
InitDash ==
    /\ storage \in Tokens
    /\ token = storage
    /\ isLoading = FALSE
    /\ history = <<"/dashboard">>
    /\ element = "Dashboard"
    /\ dash = DashFresh
    /\ detail = DetailFresh(0)
    /\ readers = {}
    /\ session = NoSession
    /\ net = <<ListRequest(DashFresh)>>
    /\ server = InitServer
    /\ event = Ev("mount")
    /\ actions = 0

NextDash ==
    \/ FetchProductsOk
    \/ FetchProductsFail
    \/ HandleSearchChange
    \/ HandleCategoryChange
    \/ HandleSortChange
    \/ HandleSortOrderChange
    \/ HandleMinPriceChange
    \/ HandleMaxPriceChange
    \/ ClearFilters
    \/ ClickPrevious
    \/ ClickNext
    \/ ClickCard
    \/ handleLogout

SpecDash == InitDash /\ [][NextDash]_vars

\* The await of the list request issued longest ago settles.
OldestAnswered ==
    /\ FetchProductsOk \/ FetchProductsFail
    /\ SubSeq(net', 1, Len(net) - 1) = Tail(net)

\* The dashboard with a network that answers: no request stays the oldest
\* one in flight forever, so every request is answered. The user may stop
\* acting at any time.
SpecDashFair == SpecDash /\ WF_vars(OldestAnswered)

\* The product-detail page, mounted for a signed-in user who came from the
\* dashboard.
InitDetail ==
    /\ storage \in Tokens
    /\ token = storage
    /\ isLoading = FALSE
    /\ history \in {<<"/dashboard", ProductPath(i)>> : i \in RouteIds}
    /\ element = "ProductDetail"
    /\ dash = DashFresh
    /\ detail = DetailFresh(ParamId(history[2]))
    /\ readers = {}
    /\ session = NoSession
    /\ net = <<GetRequest(ParamId(history[2]), NoTag)>>
    /\ server = InitServer
    /\ event = Ev("mount")
    /\ actions = 0

NextDetail ==
    \/ FetchProductOk
    \/ FetchProductFail
    \/ EditProduct
    \/ HandleInputChange
    \/ HandleImageChange
    \/ ReaderLoadEnd
    \/ HandleUpdate
    \/ UpdateOk
    \/ UpdateFail
    \/ Cancel
    \/ HandleDelete
    \/ DeleteOk
    \/ DeleteFail
    \/ BackToDashboard

SpecDetail == InitDetail /\ [][NextDetail]_vars

\* Both pages, for a signed-in user who starts on either, opens a product
\* from the dashboard and returns to the dashboard by deleting one.
InitPages == InitDash \/ InitDetail

NextPages ==
    \/ FetchProductsOk
    \/ FetchProductsFail
    \/ HandleSearchChange
    \/ HandleCategoryChange
    \/ HandleSortChange
    \/ HandleSortOrderChange
    \/ HandleMinPriceChange
    \/ HandleMaxPriceChange
    \/ ClearFilters
    \/ ClickPrevious
    \/ ClickNext
    \/ ClickCard
    \/ FetchProductOk
    \/ FetchProductFail
    \/ EditProduct
    \/ HandleInputChange
    \/ HandleImageChange
    \/ ReaderLoadEnd
    \/ HandleUpdate
    \/ UpdateOk
    \/ UpdateFail
    \/ Cancel
    \/ HandleDelete
    \/ DeleteOk
    \/ DeleteFail

SpecPages == InitPages /\ [][NextPages]_vars

(***************************************************************************)
(* Claims.                                                                 *)
(***************************************************************************)
Guarded(p) == p = "/dashboard" \/ IsProductPath(p)
PageOf(p) == IF p = "/dashboard" THEN "Dashboard" ELSE "ProductDetail"

\* C1 (route guarding): at a guarded location, once the context has finished
\* loading, no token means the guard renders the redirect to /login and the
\* redirect's effect lands on /login, and a token means the guarded page is
\* rendered and nothing redirects; a guarded page is rendered only with a
\* token; after loading the context's token is the stored one.
C1_RouteGuarding ==
    /\ [](~isLoading => token = storage)
    /\ []((Guarded(Location) /\ ~isLoading /\ Falsy(token)) => element = "NavigateLogin")
    /\ []((Guarded(Location) /\ ~isLoading /\ ~Falsy(token)) => element = PageOf(Location))
    /\ [](element \in {"Dashboard", "ProductDetail"} => ~Falsy(token) /\ ~Falsy(storage))
    /\ [][element = "NavigateLogin" => (Location' = "/login" /\ element' = "Login")]_vars

\* C1 witness: a load of a guarded location without a token was redirected.
C1_Witness ==
    /\ event.name = "NavigateLogin"
    /\ Location = "/login"
    /\ ~isLoading
    /\ Falsy(storage)

\* C10 (guard loading state): while isLoading is true, at a guarded location
\* the guard renders the loading placeholder only, with or without a token.
C10_GuardLoading ==
    (isLoading /\ Guarded(Location)) => element = "GuardLoading"

\* C10 witness: the placeholder is rendered although a token is present.
C10_Witness ==
    /\ isLoading
    /\ Guarded(Location)
    /\ ~Falsy(token)
    /\ element = "GuardLoading"

FilterHandlers ==
    {"handleSearchChange", "handleCategoryChange", "handleSortChange",
     "handleSortOrderChange", "handleMinPriceChange", "handleMaxPriceChange"}

FilterValues(d) == <<d.search, d.category, d.sortBy, d.sortOrder, d.minPrice, d.maxPrice>>

\* The query b carries every non-empty filter value of the dashboard state d.
Carries(b, d) ==
    /\ d.search # "" => ("search" \in DOMAIN b /\ b.search = d.search)
    /\ d.category # "" => ("category" \in DOMAIN b /\ b.category = d.category)
    /\ d.sortBy # "" => ("sort_by" \in DOMAIN b /\ b.sort_by = d.sortBy)
    /\ d.sortOrder # "" => ("sort_order" \in DOMAIN b /\ b.sort_order = d.sortOrder)
    /\ d.minPrice # "" => ("min_price" \in DOMAIN b /\ b.min_price = d.minPrice)
    /\ d.maxPrice # "" => ("max_price" \in DOMAIN b /\ b.max_price = d.maxPrice)

\* C2 (filter reset): a step that handles a change of the search text, the
\* category, the sort field, the sort order or a price bound changes that
\* filter, sets the current page to 1 whatever it was, and issues exactly one
\* list request, which carries page = 1 and the filter values now held.
C2_FilterReset ==
    [][event'.name \in FilterHandlers =>
        /\ FilterValues(dash') # FilterValues(dash)
        /\ dash'.currentPage = 1
        /\ Len(net') = Len(net) + 1
        /\ SubSeq(net', 1, Len(net)) = net
        /\ net'[Len(net')].kind = "LIST"
        /\ net'[Len(net')].body.page = 1
        /\ Carries(net'[Len(net')].body, dash')]_vars

\* C2 witness: the search text was changed while page 2 was current (its
\* request is still in flight); the page is 1 and the new request asks for
\* page 1 with the new text.
C2_Witness ==
    /\ event.name = "handleSearchChange"
    /\ Len(net) = 2
    /\ net[1].body.page = 2
    /\ net[2].body.page = 1
    /\ net[2].body.search = "lamp"
    /\ dash.currentPage = 1

\* C7 (dashboard fetch failure): a step that handles a failed list request
\* sets the error to "Failed to fetch products" and loading to false, leaves
\* the list, the current page, the last page, the total and the filters as
\* they were, does not navigate, and issues no request.
C7_FetchFailure ==
    [][event'.name = "fetchProductsFail" =>
        /\ dash' = [dash EXCEPT !.error = "Failed to fetch products", !.loading = FALSE]
        /\ history' = history
        /\ element' = element
        /\ \E k \in 1..Len(net) : net' = RemoveAt(net, k)]_vars

\* C7 witness: a request failed with a loaded list on page 2 of several.
C7_Witness ==
    /\ event.name = "fetchProductsFail"
    /\ dash.error = "Failed to fetch products"
    /\ ~dash.loading
    /\ dash.products # <<>>
    /\ dash.currentPage = 2
    /\ dash.lastPage > 1
    /\ net = <<>>

\* C8 (pagination boundary): Previous is disabled exactly when the current
\* page is 1, Next exactly when it is the last page, the controls are absent
\* when the last page is at most 1, and Previous or Next can never be used
\* to ask for a page below 1 or above the last page: a control that can be
\* clicked asks for a page within 1..last page, and so did the last click.
C8_PaginationBoundary ==
    /\ PreviousDisabled(dash) <=> dash.currentPage = 1
    /\ NextDisabled(dash) <=> dash.currentPage = dash.lastPage
    /\ dash.lastPage <= 1 => ~PaginationShown(dash)
    /\ (element = "Dashboard" /\ PaginationShown(dash) /\ ~PreviousDisabled(dash)) =>
          dash.currentPage - 1 >= 1
    /\ (element = "Dashboard" /\ PaginationShown(dash) /\ ~NextDisabled(dash)) =>
          dash.currentPage + 1 <= dash.lastPage
    /\ event.name \in {"ClickPrevious", "ClickNext"} =>
          /\ dash.currentPage >= 1
          /\ dash.currentPage <= dash.lastPage
          /\ \E k \in 1..Len(net) : net[k].kind = "LIST" /\ net[k].body.page = dash.currentPage

\* C3 (delete confirmation gate): declining the prompt issues no request and
\* leaves the page, the location and the backend as they were; confirming
\* issues exactly one request, a DELETE for the page's product id, and
\* changes nothing else; a DELETE that succeeds removes the product and
\* navigates to /dashboard.
C3_DeleteGate ==
    [][/\ event'.name = "handleDeleteDeclined" =>
             UNCHANGED <<detail, net, server, history, element, readers, token, storage, dash>>
       /\ event'.name = "handleDeleteConfirmed" =>
             /\ Len(net') = Len(net) + 1
             /\ SubSeq(net', 1, Len(net)) = net
             /\ net'[Len(net')].kind = "DELETE"
             /\ net'[Len(net')].id = detail.id
             /\ UNCHANGED <<detail, server, history, element>>
       /\ event'.name = "handleDeleteOk" =>
             /\ \E k \in 1..Len(net) : net[k].kind = "DELETE" /\ server'[net[k].id] = NoProduct
             /\ Location' = "/dashboard"
             /\ element' = "Dashboard"]_vars

\* C3 witness: a confirmed delete succeeded and the dashboard is shown.
C3_Witness ==
    /\ event.name = "handleDeleteOk"
    /\ Location = "/dashboard"
    /\ element = "Dashboard"
    /\ server[1] = NoProduct

\* C4 (update success): on the page, a step that handles a successful update
\* adopts the returned product, leaves edit mode, holds no chosen file and no
\* preview, and replaces the answered POST by a GET for the same product; the
\* step that handles that GET's success sets the displayed product to the
\* backend's copy and the draft to the form of that copy.
C4_UpdateSuccess ==
    [][/\ (event'.name = "handleUpdateOk" /\ element = "ProductDetail") =>
             /\ detail'.product = server'[detail.id]
             /\ detail'.product # NoProduct
             /\ ~detail'.isEditing
             /\ detail'.imageFile = Null
             /\ detail'.imagePreview = Null
             /\ detail'.loading
             /\ \E k \in 1..Len(net) :
                   /\ net[k].kind = "POST"
                   /\ net[k].id = detail.id
                   /\ SubSeq(net', 1, Len(net') - 1) = RemoveAt(net, k)
             /\ net'[Len(net')].kind = "GET"
             /\ net'[Len(net')].id = detail.id
       /\ (event'.name = "fetchProductOk" /\ event'.tag # NoTag) =>
             /\ server' = server
             /\ detail'.product = server[detail.id]
             /\ detail'.formData = ToForm(server[detail.id])
             /\ ~detail'.loading]_vars

\* C4 witness: the re-fetch after an update that renamed the product
\* succeeded.
C4_Witness ==
    /\ event.name = "fetchProductOk"
    /\ event.tag # NoTag
    /\ detail.product.name = "Desk"
    /\ detail.formData.name = "Desk"
    /\ ~detail.isEditing

\* C5 (update failure): on the page, a step that handles a failed update sets
\* the error to the backend's message when there is one and to "Failed to
\* update product" otherwise, and changes nothing else: the edit mode, the
\* product, the draft, the chosen file and the preview stay, the location
\* stays, and no request is issued.
C5_UpdateFailure ==
    [][(event'.name = "handleUpdateFail" /\ element = "ProductDetail") =>
        /\ detail' = [detail EXCEPT !.error = IF Falsy(event'.arg)
                                              THEN "Failed to update product"
                                              ELSE event'.arg]
        /\ history' = history
        /\ element' = element
        /\ server' = server
        /\ \E k \in 1..Len(net) : net[k].kind = "POST" /\ net' = RemoveAt(net, k)]_vars

\* C5 witness: an update with a chosen file failed without a backend message
\* and the page is still in edit mode with the file.
C5_Witness ==
    /\ event.name = "handleUpdateFail"
    /\ event.arg = Null
    /\ detail.error = "Failed to update product"
    /\ detail.isEditing
    /\ detail.imageFile # Null

\* C6 (cancel): Cancel issues no request and leaves the page in view mode
\* with no chosen file and no preview, and both stay absent until the user
\* next selects a file.
C6_CancelDiscards ==
    /\ [](event.name = "Cancel" =>
            ~detail.isEditing /\ detail.imageFile = Null /\ detail.imagePreview = Null)
    /\ [](session.sinceCancel => detail.imageFile = Null /\ detail.imagePreview = Null)
    /\ [][event'.name = "Cancel" => net' = net]_vars

\* C9 (edit round-trip): after the re-fetch that follows the only submission
\* of an edit session, made without touching the draft and without a new
\* image, the displayed name, category, price, rating and description are
\* those shown before editing.
C9_EditRoundTrip ==
    (event.name = "fetchProductOk" /\ event.tag.untouched /\ session.posts = 1) =>
        Display(detail.product) = event.tag.shown

\* C11 (clear filters): a step that handles Clear Filters leaves the search
\* text, the category and both price bounds empty, the sort field
\* "created_at", the sort order "desc" and the current page 1, whatever they
\* were; applying it to the result changes nothing, and a second Clear
\* Filters right after the first leaves the page and the network as they are.
C11_ClearFilters ==
    [][event'.name = "clearFilters" =>
        /\ FilterValues(dash') = <<"", "", "created_at", "desc", "", "">>
        /\ dash'.currentPage = 1
        /\ clearFilters(clearFilters(dash)) = clearFilters(dash)
        /\ event.name = "clearFilters" => (dash' = dash /\ net' = net)]_vars

\* C11 witness: Clear Filters was used on page 2 (whose request is still in
\* flight); the page is 1 and the request it caused asks for page 1 without
\* a search text.
C11_Witness ==
    /\ event.name = "clearFilters"
    /\ Len(net) = 2
    /\ net[1].body.page = 2
    /\ net[2].body.page = 1
    /\ "search" \notin DOMAIN net[2].body
    /\ FilterValues(dash) = <<"", "", "created_at", "desc", "", "">>
    /\ dash.currentPage = 1

\* C12 (root redirect): the location / always renders the redirect to
\* /dashboard; the redirect replaces the current history entry by /dashboard
\* and renders what the route guard returns for the dashboard; and a load of
\* / leads to the login page at /login when no token is stored and to the
\* dashboard at /dashboard when a token is stored.
C12_RootRedirect ==
    /\ [](Location = "/" => element = "NavigateDashboard")
    /\ [][element = "NavigateDashboard" =>
            /\ history' = Replace(history, "/dashboard")
            /\ element' = ProtectedRoute(token, isLoading, "Dashboard")]_vars
    /\ (Location = "/" /\ Falsy(storage)) ~> (Location = "/login" /\ element = "Login")
    /\ (Location = "/" /\ ~Falsy(storage)) ~> (Location = "/dashboard" /\ element = "Dashboard")

\* C12 witness: the redirect from / has run and the guard of /dashboard is
\* waiting for the context.
C12_Witness ==
    /\ event.name = "NavigateDashboard"
    /\ history = <<"/dashboard">>
    /\ element = "GuardLoading"

\* C13 (image resolution precedence): on the detail page the image shown is
\* image_url when the product has one, otherwise the storage URL of image
\* when it has one, otherwise the placeholder; in view mode, and in edit mode
\* under the file input while no replacement file is chosen.
C13_ImagePrecedence ==
    \A env \in ApiBaseUrls :
        LET p == detail.product
            expected == IF ~Falsy(p.image_url) THEN <<p.image_url>>
                        ELSE IF ~Falsy(p.image)
                             THEN StorageBase(env) \o <<"/storage/", p.image>>
                        ELSE PlaceholderUrl
        IN  DetailShown =>
                /\ ~detail.isEditing => ViewImage(detail, env) = expected
                /\ (detail.isEditing /\ detail.imageFile = Null) =>
                       EditPreview(detail, env) = expected

DashHandlers == FilterHandlers \cup {"clearFilters", "ClickPrevious", "ClickNext"}

\* C14 (stale response overwrite): a dashboard handler never removes a
\* request in flight; and a step that handles the response to a list request
\* issued for earlier inputs applies it: the products, the last page and the
\* total are the response's, the current page is the page that request asked
\* for, and the filter controls keep the inputs now held.
C14_StaleOverwrite ==
    [][/\ event'.name \in DashHandlers =>
             (Len(net') >= Len(net) /\ SubSeq(net', 1, Len(net)) = net)
       /\ (event'.name = "fetchProductsOk" /\ event'.arg = "stale") =>
             \E k \in 1..Len(net), body \in ListBodies :
                 /\ net[k].kind = "LIST"
                 /\ net[k].body # ListParams(dash)
                 /\ dash'.products = body.data
                 /\ dash'.lastPage = body.last_page
                 /\ dash'.total = body.total
                 /\ dash'.currentPage = net[k].body.page
                 /\ FilterValues(dash') = FilterValues(dash)]_vars

\* C14 witness: the response to the page-2 request issued before the search
\* text was typed arrived after the response to the search: the page shows
\* page 2 of the old list with the new search text (and asks for page 2 of
\* the search).
C14_Witness ==
    /\ event.name = "fetchProductsOk"
    /\ event.arg = "stale"
    /\ dash.search = "lamp"
    /\ dash.currentPage = 2
    /\ Len(net) = 1
    /\ net[1].body.page = 2
    /\ net[1].body.search = "lamp"

UserActions == DashHandlers \cup {"handleUpdate", "handleDeleteConfirmed"}
FailureHandlers == {"fetchProductsFail", "fetchProductFail", "handleUpdateFail", "handleDeleteFail"}
ResponseHandlers == FailureHandlers \cup {"fetchProductsOk", "fetchProductOk", "handleUpdateOk"}

\* The handler's own request was the k-th in flight and nothing was issued.
Answered(n, m) == \E k \in 1..Len(n) : m = RemoveAt(n, k)

\* The handler issued at most one request and removed none.
IssuedAtMostOne(n, m) == m = n \/ (Len(m) = Len(n) + 1 /\ SubSeq(m, 1, Len(n)) = n)

GuardState(el) ==
    IF el = "GuardLoading" THEN "Loading"
    ELSE IF el = "NavigateLogin" THEN "Unauthenticated"
    ELSE IF el \in {"Dashboard", "ProductDetail"} THEN "Authenticated"
    ELSE "Unmounted"

\* C16 (guard state machine): a guard rendered at application load is in
\* Loading; and no step, a login or a logout included, takes a rendered
\* guard from Authenticated or Unauthenticated to Loading or to the other of
\* the two: a guard that left Loading keeps its state until it is unmounted.
C16_GuardStateMachine ==
    /\ Guarded(Location) => GuardState(element) = "Loading"
    /\ [][GuardState(element) \in {"Authenticated", "Unauthenticated"} =>
            GuardState(element') \in {GuardState(element), "Unmounted"}]_vars

\* C16 witness: a logout happened under a guard in Authenticated, which is
\* unmounted by the navigation to /login.
C16_Witness ==
    /\ event.name = "handleLogout"
    /\ Falsy(token)
    /\ Location = "/login"
    /\ GuardState(element) = "Unmounted"

\* C17 (dashboard quiescence): once the user has stopped acting and every
\* request in flight gets its answer, the dashboard reaches a state with no
\* product-list request in flight and stays there, for a backend whose
\* current_page is the page requested.
C17_Quiescence == <>[](\A k \in 1..Len(net) : net[k].kind # "LIST")

\* C18 (preview/file consistency): whenever the detail page holds an image
\* preview it also holds a chosen file, and the preview is the data URL of
\* that file.
C18_PreviewFileConsistency ==
    detail.imagePreview # Null =>
        /\ detail.imageFile # Null
        /\ detail.imagePreview = DataUrl(detail.imageFile)

\* ProductDetail's render: the message the page shows. While loading it is
\* the loading placeholder, without a product it is "Product not found",
\* and only the detail view renders the error state.
MessageShown(p) ==
    IF p.loading THEN "Loading product..."
    ELSE IF p.product = NoProduct THEN "Product not found"
    ELSE p.error

FailedMessage(e) ==
    IF e.name = "fetchProductFail" THEN "Failed to fetch product"
    ELSE IF e.name = "handleDeleteFail" THEN "Failed to delete product"
    ELSE IF Falsy(e.arg) THEN "Failed to update product"
    ELSE e.arg

\* C19 (detail-page failure visibility): when a request of the mounted
\* product-detail page has failed (the product fetch, the update or the
\* delete), the page is not loading and shows that request's message, also
\* when the failed request is the first fetch and no product is loaded.
C19_FailureVisible ==
    (element = "ProductDetail"
        /\ event.name \in {"fetchProductFail", "handleUpdateFail", "handleDeleteFail"}) =>
            /\ ~detail.loading
            /\ MessageShown(detail) = FailedMessage(event)

\* C20 (dashboard loading flag): in every state of the mounted dashboard
\* with a product-list request in flight, loading is true.
C20_LoadingWhileInFlight ==
    (element = "Dashboard" /\ \E k \in 1..Len(net) : net[k].kind = "LIST") => dash.loading

\* C21 (draft discard on Cancel): whenever edit mode is entered, after a
\* Cancel that abandoned changed fields included, the draft presented is the
\* one built from the product on display; and a Save made without touching
\* the draft since submits that product's field values.
C21_DraftDiscard ==
    /\ event.name = "EditProduct" => detail.formData = ToForm(detail.product)
    /\ (event.name = "handleUpdate" /\ ~session.touched) =>
          net[Len(net)].body = UpdateBody(ToForm(detail.product), detail.imageFile)

\* The query b has no key for an empty filter value of the dashboard state d,
\* and no key other than the eight parameters.
Omits(b, d) ==
    /\ DOMAIN b \subseteq {"page", "per_page", "search", "category", "sort_by", "sort_order",
                           "min_price", "max_price"}
    /\ d.search = "" => "search" \notin DOMAIN b
    /\ d.category = "" => "category" \notin DOMAIN b
    /\ d.sortBy = "" => "sort_by" \notin DOMAIN b
    /\ d.sortOrder = "" => "sort_order" \notin DOMAIN b
    /\ d.minPrice = "" => "min_price" \notin DOMAIN b
    /\ d.maxPrice = "" => "max_price" \notin DOMAIN b

\* The request r is a product-list request for the dashboard state d.
ListRequestFor(r, d) ==
    /\ r.kind = "LIST"
    /\ {"page", "per_page"} \subseteq DOMAIN r.body
    /\ r.body.page = d.currentPage
    /\ r.body.per_page = 12
    /\ Carries(r.body, d)
    /\ Omits(r.body, d)

\* The requests in flight once the step's own request, if it handled a
\* response, is taken out.
Remaining(n, e) == IF e.name \in DashHandlers THEN Len(n) ELSE Len(n) - 1

\* C22 (request parameters): the dashboard issues one product-list request
\* when it mounts and one after every step that changes the search text, the
\* category, the sort field, the sort order, a price bound or the current
\* page, and none after any other step; the request carries the current
\* page, per_page 12, and exactly the filter and sort values that are
\* non-empty; no request in flight carries an empty value.
C22_RequestParameters ==
    /\ element = "Dashboard" => (Len(net) = 1 /\ ListRequestFor(net[1], dash))
    /\ [](\A k \in 1..Len(net) : net[k].kind = "LIST" =>
             \A key \in DOMAIN net[k].body \ {"page", "per_page"} : net[k].body[key] # "")
    /\ [][element' = "Dashboard" =>
            IF element # "Dashboard"
            THEN Len(net') >= 1 /\ ListRequestFor(net'[Len(net')], dash')
            ELSE IF Deps(dash') # Deps(dash)
            THEN /\ Len(net') = Remaining(net, event') + 1
                 /\ ListRequestFor(net'[Len(net')], dash')
            ELSE Len(net') = Remaining(net, event')]_vars

\* C22 witness: a change of the search text on page 2 issued a request that
\* carries the text and page 1 and omits the empty category and price
\* bounds.
C22_Witness ==
    /\ event.name = "handleSearchChange"
    /\ element = "Dashboard"
    /\ dash.search = "lamp"
    /\ dash.category = ""
    /\ Len(net) = 2
    /\ net[1].body.page = 2
    /\ DOMAIN net[2].body = {"page", "per_page", "search", "sort_by", "sort_order"}
====
